---- MODULE Spec2Model ----
(***************************************************************************)
(* Plant Species Classification API (src/app.py).                          *)
(*                                                                         *)
(* State: the two module globals `model` and `plant_classes`, the two      *)
(* files load_model reads, the position of the lifespan context manager,   *)
(* and the response of the request handled last (with counters of the      *)
(* file.read / preprocess_image / model.predict calls that request made).  *)
(*                                                                         *)
(* The server (uvicorn.run(app), app built with lifespan=lifespan) routes   *)
(* requests only between the lifespan's `yield` and its shutdown, so the   *)
(* handler actions are enabled only in phase "serving".                    *)
(*                                                                         *)
(* Python indices are 0-based and kept so; sequences are 1-based, hence    *)
(* the "+ 1" wherever a Python index reads a sequence.                     *)
(***************************************************************************)
EXTENDS Integers, Sequences, FiniteSets, TLC

VARIABLES model, plant_classes, model_file, classes_file, phase, resp

vars == <<model, plant_classes, model_file, classes_file, phase, resp>>

----------------------------------------------------------------------------
(* Bounds *)

\* widest output vector of an engine found in the model file
MaxWidth == 2
\* probabilities are the integers 0..MaxProb (only their order matters)
MaxProb == 1
\* longest label list found in the classes file
MaxLabels == 2
\* most files a client puts into one /predict-batch request
MaxFiles == 11

\* `if len(files) > 10`
MAX_BATCH == 10

----------------------------------------------------------------------------
(* Values *)

\* Python's None, for the two globals
None == [kind |-> "None"]

Base == MaxProb + 1

RECURSIVE Pow(_, _)
Pow(b, e) == IF e = 0 THEN 1 ELSE b * Pow(b, e - 1)

\* Upload bodies / tensors. Body 0 is a byte string PIL cannot open; body 1
\* is an image on which the engine raises; bodies 2.. are images, enough of
\* them for the engine to answer every vector over 0..MaxProb.
NotAnImage == 0
PoisonImage == 1
Bodies == 0 .. (1 + Pow(Base, MaxWidth))

LabelNames == <<"Aloe", "Basil", "Cactus", "Daisy">>

\* file.content_type: <<major, minor>>, or <<>> for None (the part carries
\* no Content-Type header)
NoContentType == <<>>
ContentTypeSeq ==
    <<(<<"image", "png">>), (<<"image", "jpeg">>), (<<"text", "plain">>), NoContentType>>
ContentTypes == {ContentTypeSeq[i] : i \in 1..Len(ContentTypeSeq)}

FileNames == <<"leaf.png", "notes.txt">>

Files == [filename : {FileNames[i] : i \in 1..Len(FileNames)},
          content_type : ContentTypes,
          body : Bodies]

\* exceptions: the class and, for HTTPException, its status_code
Exc(type, status, detail) == [type |-> type, status_code |-> status, detail |-> detail]
NoExc == Exc("", 0, "")

----------------------------------------------------------------------------
(* Files on disk *)

\* plant_species_CNN.h5: absent, present but not loadable, or an engine
ModelFiles ==
    {[exists |-> FALSE, loadable |-> FALSE, width |-> 0],
     [exists |-> TRUE, loadable |-> FALSE, width |-> 0]}
    \cup {[exists |-> TRUE, loadable |-> TRUE, width |-> w] : w \in 1..MaxWidth}

\* plant_classes.json: absent, present but not JSON, or a list of labels
ClassesFiles ==
    {[exists |-> FALSE, parses |-> FALSE, items |-> <<>>],
     [exists |-> TRUE, parses |-> FALSE, items |-> <<>>]}
    \cup {[exists |-> TRUE, parses |-> TRUE, items |-> SubSeq(LabelNames, 1, n)] :
            n \in 0..MaxLabels}

----------------------------------------------------------------------------
(* load_model and the lifespan *)

Engine(w) == [kind |-> "engine", width |-> w]
LabelList(items) == [kind |-> "list", items |-> items]

\* load_model with an except block that logs and does not raise again
LoadModelSwallow(mf, cf) ==
    IF ~(mf.exists /\ mf.loadable)
    THEN [model |-> None, plant_classes |-> None, raised |-> FALSE]
    ELSE IF ~(cf.exists /\ cf.parses)
    THEN [model |-> Engine(mf.width), plant_classes |-> None, raised |-> FALSE]
    ELSE [model |-> Engine(mf.width), plant_classes |-> LabelList(cf.items),
          raised |-> FALSE]

\* load_model(), run on globals that are still None: the values of the two
\* globals when it returns or raises, and whether it raised. The model is
\* assigned before the classes file is looked at.
LoadModel(mf, cf) ==
    IF ~mf.exists
    THEN [model |-> None, plant_classes |-> None, raised |-> TRUE]   \* FileNotFoundError
    ELSE IF ~mf.loadable
    THEN [model |-> None, plant_classes |-> None, raised |-> TRUE]   \* load_model raises
    ELSE IF ~cf.exists
    THEN [model |-> Engine(mf.width), plant_classes |-> None, raised |-> TRUE]
    ELSE IF ~cf.parses
    THEN [model |-> Engine(mf.width), plant_classes |-> None, raised |-> TRUE]
    ELSE [model |-> Engine(mf.width), plant_classes |-> LabelList(cf.items),
          raised |-> FALSE]

----------------------------------------------------------------------------
(* The pipeline: preprocess_image, model.predict, top-1 *)

\* a content-type test that accepts every declared type
StartsWithAnything(ct) == Len(ct) >= 1

\* file.content_type.startswith('image/'), for a content type that is a string
StartsWithImage(ct) == ct[1] = "image"

\* preprocess_image: Image.open fails on bytes that are no image, and every
\* exception becomes HTTPException(400). The tensor is named by its image.
PreprocessImage(body) ==
    IF body = NotAnImage
    THEN [exc |-> Exc("HTTPException", 400, "Error processing image"), tensor |-> 0]
    ELSE [exc |-> NoExc, tensor |-> body]

\* The i-th output (1-based) of an engine of width w on tensor t: the engine
\* is a fixed function of the tensor, and over the tensors 2.. its outputs
\* run through every vector of w values in 0..MaxProb.
EngineOutput(w, t) == [i \in 1..w |-> ((t - 2) \div Pow(Base, i - 1)) % Base]

\* model.predict(processed_image, verbose=0), then predictions[0]
Predict(m, t) ==
    IF m = None
    THEN [exc |-> Exc("AttributeError", 0, "NoneType has no attribute predict"),
          vec |-> <<>>]
    ELSE IF t = PoisonImage
    THEN [exc |-> Exc("InferenceFailure", 0, "engine error"), vec |-> <<>>]
    ELSE [exc |-> NoExc, vec |-> EngineOutput(m.width, t)]

\* an arg-max that keeps the last of equal greatest values
RECURSIVE ArgMaxLastFrom(_, _, _)
ArgMaxLastFrom(v, i, best) ==
    IF i >= Len(v) THEN best
    ELSE ArgMaxLastFrom(v, i + 1, IF v[i + 1] >= v[best + 1] THEN i ELSE best)

ArgMaxLast(v) == ArgMaxLastFrom(v, 1, 0)

\* np.argmax: one pass from the left that keeps the earlier index unless a
\* later value is strictly greater. The result is a 0-based index.
RECURSIVE ArgMaxFrom(_, _, _)
ArgMaxFrom(v, i, best) ==
    IF i >= Len(v) THEN best
    ELSE ArgMaxFrom(v, i + 1, IF v[i + 1] > v[best + 1] THEN i ELSE best)

ArgMax(v) == ArgMaxFrom(v, 1, 0)

\* a lookup that wraps an index beyond the list back into it
LabelLookupWrapped(classes, index) ==
    IF classes = None
    THEN [exc |-> Exc("TypeError", 0, "NoneType is not subscriptable"), label |-> ""]
    ELSE IF Len(classes.items) = 0
    THEN [exc |-> Exc("IndexError", 0, "list index out of range"), label |-> ""]
    ELSE [exc |-> NoExc, label |-> classes.items[(index % Len(classes.items)) + 1]]

\* plant_classes[predicted_class_index], the index being >= 0
LabelLookup(classes, index) ==
    IF classes = None
    THEN [exc |-> Exc("TypeError", 0, "NoneType is not subscriptable"), label |-> ""]
    ELSE IF index >= Len(classes.items)
    THEN [exc |-> Exc("IndexError", 0, "list index out of range"), label |-> ""]
    ELSE [exc |-> NoExc, label |-> classes.items[index + 1]]

Failed(e, preps, infers) ==
    [exc |-> e, predicted_class |-> "", confidence |-> 0,
     preps |-> preps, infers |-> infers]

\* The body of the try blocks after the bytes are at hand: preprocess,
\* predict, arg-max, confidence, label. The first exception ends it.
Pipeline(m, classes, body) ==
    LET pre == PreprocessImage(body) IN
    IF pre.exc # NoExc THEN Failed(pre.exc, 1, 0)
    ELSE LET out == Predict(m, pre.tensor) IN
    IF out.exc # NoExc THEN Failed(out.exc, 1, IF m = None THEN 0 ELSE 1)
    ELSE LET predicted_class_index == ArgMax(out.vec)
             confidence == out.vec[predicted_class_index + 1]
             look == LabelLookup(classes, predicted_class_index) IN
    IF look.exc # NoExc THEN Failed(look.exc, 1, 1)
    ELSE [exc |-> NoExc, predicted_class |-> look.label, confidence |-> confidence,
          preps |-> 1, infers |-> 1]

----------------------------------------------------------------------------
(* Request handlers, as functions of the globals and the request *)

\* What the handler sent, and what it did on the way: the numbers of
\* file.read(), preprocess_image and model.predict calls it made.
Response(ep, req, status, body, reads, preps, infers) ==
    [ep |-> ep, req |-> req, status |-> status, body |-> body,
     reads |-> reads, preps |-> preps, infers |-> infers]

\* raise HTTPException(status_code=..., detail=...) reaching the framework
HttpError(ep, req, status, detail, reads, preps, infers) ==
    Response(ep, req, status, [detail |-> detail], reads, preps, infers)

\* GET /
Root == Response("root", <<>>, 200,
                 [message |-> "Plant Species Classification API",
                  version |-> "1.0.0", status |-> "running"], 0, 0, 0)

\* a health dictionary whose second flag repeats the test of the first
HealthBodyCopied(m, classes) ==
    [status |-> "healthy",
     model_loaded |-> (m # None),
     classes_loaded |-> (m # None)]

\* the dictionary health_check returns
HealthBody(m, classes) ==
    [status |-> "healthy",
     model_loaded |-> (m # None),
     classes_loaded |-> (classes # None)]

\* GET /health
HealthCheck(m, classes) ==
    Response("health", <<>>, 200, HealthBody(m, classes), 0, 0, 0)

\* GET /classes
GetClasses(classes) ==
    IF classes = None
    THEN HttpError("classes", <<>>, 500, "Plant classes not loaded", 0, 0, 0)
    ELSE Response("classes", <<>>, 200,
                  [classes |-> classes.items, count |-> Len(classes.items)], 0, 0, 0)

\* POST /predict. The content-type test stands before the try block; with
\* content_type None it raises AttributeError there, which nothing catches
\* and the server answers 500. Inside the try block `except Exception`
\* catches every exception, the HTTPException of preprocess_image included,
\* and raises HTTPException(500).
PredictPlant(m, classes, file) ==
    IF file.content_type = NoContentType
    THEN HttpError("predict", file, 500, "Internal Server Error", 0, 0, 0)
    ELSE IF ~StartsWithImage(file.content_type)
    THEN HttpError("predict", file, 400, "File must be an image", 0, 0, 0)
    ELSE LET r == Pipeline(m, classes, file.body) IN
         IF r.exc # NoExc
         THEN HttpError("predict", file, 500, "Prediction failed", 1, r.preps, r.infers)
         ELSE Response("predict", file, 200,
                       [predicted_class |-> r.predicted_class,
                        confidence |-> r.confidence,
                        filename |-> file.filename], 1, r.preps, r.infers)

\* base64 text: the bytes it encodes, and whether its padding is correct
Payloads == [padding_ok : BOOLEAN, data : Bodies]

\* request bodies of /predict-base64: a dict with or without the key 'image'
Base64Requests ==
    {[image |-> p] : p \in Payloads} \cup {[picture |-> p] : p \in Payloads}

\* base64.b64decode(s): binascii.Error on incorrect padding
B64Decode(p) ==
    IF p.padding_ok THEN [exc |-> NoExc, data |-> p.data]
    ELSE [exc |-> Exc("binascii.Error", 0, "Incorrect padding"), data |-> NotAnImage]

\* POST /predict-base64. The whole body is one try block, the test for the
\* 'image' key included, so `except Exception` catches its HTTPException(400)
\* as well and raises HTTPException(500).
PredictPlantBase64(m, classes, request) ==
    IF "image" \notin DOMAIN request
    THEN HttpError("predict-base64", request, 500, "Prediction failed", 0, 0, 0)
    ELSE LET dec == B64Decode(request.image) IN
    IF dec.exc # NoExc
    THEN HttpError("predict-base64", request, 500, "Prediction failed", 0, 0, 0)
    ELSE LET r == Pipeline(m, classes, dec.data) IN
         IF r.exc # NoExc
         THEN HttpError("predict-base64", request, 500, "Prediction failed",
                        0, r.preps, r.infers)
         ELSE Response("predict-base64", request, 200,
                       [predicted_class |-> r.predicted_class,
                        confidence |-> r.confidence], 0, r.preps, r.infers)

\* a limit test that is off by one
TooManyFilesFromTen(files) == Len(files) >= MAX_BATCH

\* `if len(files) > 10`
TooManyFiles(files) == Len(files) > MAX_BATCH

\* One pass of the loop of predict_batch: the entry appended to results and
\* the calls made. Everything is inside the try block: content_type None
\* raises AttributeError and gives an error entry as every other exception.
BatchItem(m, classes, file) ==
    IF file.content_type = NoContentType
    THEN [entry |-> [filename |-> file.filename,
                     error |-> "NoneType has no attribute startswith"],
          reads |-> 0, preps |-> 0, infers |-> 0]
    ELSE IF ~StartsWithImage(file.content_type)
    THEN [entry |-> [filename |-> file.filename, error |-> "File must be an image"],
          reads |-> 0, preps |-> 0, infers |-> 0]
    ELSE LET r == Pipeline(m, classes, file.body) IN
         IF r.exc # NoExc
         THEN [entry |-> [filename |-> file.filename, error |-> r.exc.detail],
               reads |-> 1, preps |-> r.preps, infers |-> r.infers]
         ELSE [entry |-> [filename |-> file.filename,
                          predicted_class |-> r.predicted_class,
                          confidence |-> r.confidence],
               reads |-> 1, preps |-> r.preps, infers |-> r.infers]

\* a loop that leaves at the first item that fails
RECURSIVE BatchLoopAborting(_, _, _, _, _)
BatchLoopAborting(m, classes, files, i, acc) ==
    IF i > Len(files) THEN acc
    ELSE LET it == BatchItem(m, classes, files[i])
             next == [results |-> Append(acc.results, it.entry),
                      reads |-> acc.reads + it.reads,
                      preps |-> acc.preps + it.preps,
                      infers |-> acc.infers + it.infers] IN
         IF "error" \in DOMAIN it.entry THEN next
         ELSE BatchLoopAborting(m, classes, files, i + 1, next)

\* `for file in files:` from file i on, acc holding the results so far
RECURSIVE BatchLoop(_, _, _, _, _)
BatchLoop(m, classes, files, i, acc) ==
    IF i > Len(files) THEN acc
    ELSE LET it == BatchItem(m, classes, files[i]) IN
         BatchLoop(m, classes, files, i + 1,
                   [results |-> Append(acc.results, it.entry),
                    reads |-> acc.reads + it.reads,
                    preps |-> acc.preps + it.preps,
                    infers |-> acc.infers + it.infers])

\* POST /predict-batch
PredictBatch(m, classes, files) ==
    IF TooManyFiles(files)
    THEN HttpError("predict-batch", files, 400,
                   "Maximum 10 images allowed per batch", 0, 0, 0)
    ELSE LET done == BatchLoop(m, classes, files, 1,
                               [results |-> <<>>, reads |-> 0, preps |-> 0, infers |-> 0])
         IN Response("predict-batch", files, 200, [results |-> done.results],
                     done.reads, done.preps, done.infers)

\* The uploads of the batch requests: file k of a fixed round of all bodies
\* and content types, and the batches of n consecutive files of the round.
NumBodies == Cardinality(Bodies)
RoundLen == NumBodies * Len(ContentTypeSeq)

FileAt(k) ==
    [filename |-> FileNames[(k % Len(FileNames)) + 1],
     content_type |-> ContentTypeSeq[((k \div NumBodies) % Len(ContentTypeSeq)) + 1],
     body |-> k % NumBodies]

Batch(n, k) == [i \in 1..n |-> FileAt((k + i - 1) % RoundLen)]

\* files: List[UploadFile] = File(...) is a required field: at least one file
Batches == {Batch(n, k) : n \in 1..MaxFiles, k \in 0..(RoundLen - 1)}

----------------------------------------------------------------------------
(* The state machine *)

NoResponse == Response("none", <<>>, 0, [detail |-> ""], 0, 0, 0)

Init ==
    /\ model = None
    /\ plant_classes = None
    /\ model_file \in ModelFiles
    /\ classes_file \in ClassesFiles
    /\ phase = "starting"
    /\ resp = NoResponse

\* lifespan up to its yield: load_model(), then serve; an exception of
\* load_model leaves the lifespan before the yield and the startup has failed
lifespan_startup ==
    /\ phase = "starting"
    /\ LET r == LoadModel(model_file, classes_file) IN
          /\ model' = r.model
          /\ plant_classes' = r.plant_classes
          /\ phase' = IF r.raised THEN "failed" ELSE "serving"
    /\ UNCHANGED <<model_file, classes_file, resp>>

\* lifespan after its yield: a log line
lifespan_shutdown ==
    /\ phase = "serving"
    /\ phase' = "stopped"
    /\ UNCHANGED <<model, plant_classes, model_file, classes_file, resp>>

Unchanged == UNCHANGED <<model, plant_classes, model_file, classes_file, phase>>

\* Requests are followed one at a time: resp holds the response of the
\* request in hand until it is sent. A handler reads the two globals and its
\* own request and assigns nothing else, so each handler is one step.
Idle == phase = "serving" /\ resp = NoResponse

\* the server sends the handler's response and is free for the next request
send_response ==
    /\ phase = "serving"
    /\ resp # NoResponse
    /\ resp' = NoResponse
    /\ Unchanged

root ==
    /\ Idle
    /\ resp' = Root
    /\ Unchanged

health_check ==
    /\ Idle
    /\ resp' = HealthCheck(model, plant_classes)
    /\ Unchanged

\* a get_classes that sorts the shared list in place, in descending order
RECURSIVE Reversed(_)
Reversed(seq) == IF seq = <<>> THEN <<>> ELSE Append(Reversed(Tail(seq)), Head(seq))

get_classes_sorting ==
    /\ Idle
    /\ plant_classes # None
    /\ plant_classes' = LabelList(Reversed(plant_classes.items))
    /\ resp' = GetClasses(plant_classes')
    /\ UNCHANGED <<model, model_file, classes_file, phase>>

get_classes ==
    /\ Idle
    /\ resp' = GetClasses(plant_classes)
    /\ Unchanged

predict_plant ==
    /\ Idle
    /\ \E file \in Files : resp' = PredictPlant(model, plant_classes, file)
    /\ Unchanged

predict_plant_base64 ==
    /\ Idle
    /\ \E request \in Base64Requests :
          resp' = PredictPlantBase64(model, plant_classes, request)
    /\ Unchanged

predict_batch ==
    /\ Idle
    /\ \E files \in Batches : resp' = PredictBatch(model, plant_classes, files)
    /\ Unchanged

Next ==
    \/ lifespan_startup
    \/ lifespan_shutdown
    \/ send_response
    \/ root
    \/ health_check
    \/ get_classes
    \/ predict_plant
    \/ predict_plant_base64
    \/ predict_batch

Spec == Init /\ [][Next]_vars

----------------------------------------------------------------------------
(* Properties *)

PredictionEps == {"predict", "predict-base64", "predict-batch"}

Loaded == model # None /\ plant_classes # None

\* the file declares a content type, and it begins with "image/"
DeclaresImage(file) ==
    file.content_type # NoContentType /\ file.content_type[1] = "image"

\* the file declares a content type, and it does not begin with "image/"
DeclaresOther(file) ==
    file.content_type # NoContentType /\ file.content_type[1] # "image"

\* the first position (1-based) at which v has its greatest value
FirstMax(v) ==
    CHOOSE i \in 1..Len(v) :
        /\ \A j \in 1..Len(v) : v[j] <= v[i]
        /\ \A j \in 1..(i - 1) : v[j] < v[i]

\* body is an image the engine answers with a vector
Answered(body) == body # NotAnImage /\ body # PoisonImage

\* the engine's answer to a body, in the states where the model is loaded
VectorOf(body) == EngineOutput(model.width, body)

\* the label map has no entry at the arg-max position of the engine's answer
OutOfRange(body) == FirstMax(VectorOf(body)) > Len(plant_classes.items)

HasPrediction(r) == "predicted_class" \in DOMAIN r /\ "confidence" \in DOMAIN r
HasNoPrediction(r) == "predicted_class" \notin DOMAIN r /\ "confidence" \notin DOMAIN r
HasError(r) == "error" \in DOMAIN r

\* r reports the top-1 pair of the engine's answer to body
IsTop1(r, body) ==
    LET v == VectorOf(body)
        i == FirstMax(v) IN
    /\ HasPrediction(r)
    /\ r.confidence = v[i]
    /\ r.predicted_class = plant_classes.items[i]

\* C1: a /predict request that declares an image content type and whose
\* bytes are not an image is answered 400.
C1_DecodeFailureIs400 ==
    (/\ resp.ep = "predict"
     /\ DeclaresImage(resp.req)
     /\ resp.req.body = NotAnImage) => resp.status = 400

\* the /predict-base64 request is defective on the client's side
ClientDefect(request) ==
    \/ "image" \notin DOMAIN request
    \/ ~request.image.padding_ok
    \/ request.image.data = NotAnImage

\* C2: a /predict-base64 request without the 'image' field, with malformed
\* base64, or with bytes that are not an image is answered 400, and 500 is
\* the answer to other failures only.
C2_Base64DefectIs400 ==
    resp.ep = "predict-base64" =>
        /\ ClientDefect(resp.req) => resp.status = 400
        /\ resp.status = 500 => ~ClientDefect(resp.req)

\* C3: a /predict-batch request of more than 10 files is answered 400 without
\* a file read, preprocessed or given to the engine; a request of at most 10
\* files is not rejected.
C3_BatchLimit ==
    resp.ep = "predict-batch" =>
        IF Len(resp.req) > 10
        THEN /\ resp.status = 400
             /\ resp.reads = 0 /\ resp.preps = 0 /\ resp.infers = 0
             /\ "results" \notin DOMAIN resp.body
        ELSE resp.status = 200

C3_Witness ==
    /\ resp.ep = "predict-batch"
    /\ Len(resp.req) = 11
    /\ \E i \in 1..Len(resp.req) : DeclaresImage(resp.req[i]) /\ Answered(resp.req[i].body)
    /\ resp.status = 400

\* item `file` of a batch fails: no image content type, bytes that are no
\* image, an engine error, or no label at the arg-max position
ItemFails(file) ==
    \/ ~DeclaresImage(file)
    \/ ~Answered(file.body)
    \/ OutOfRange(file.body)

\* C4: a /predict-batch request of n <= 10 files is answered 200 with n
\* entries in the order of the files, entry i with the filename of file i and
\* with an error (item i failed) or a prediction (it succeeded), never both;
\* the items after a failed one are processed all the same.
C4_BatchIsolation ==
    (resp.ep = "predict-batch" /\ Len(resp.req) <= 10) =>
        /\ resp.status = 200
        /\ Len(resp.body.results) = Len(resp.req)
        /\ \A i \in 1..Len(resp.req) :
              LET e == resp.body.results[i]
                  f == resp.req[i] IN
              /\ e.filename = f.filename
              /\ ItemFails(f) => HasError(e) /\ HasNoPrediction(e)
              /\ ~ItemFails(f) => HasPrediction(e) /\ ~HasError(e)
        /\ resp.reads = Cardinality({i \in 1..Len(resp.req) : DeclaresImage(resp.req[i])})
        /\ resp.infers = Cardinality({i \in 1..Len(resp.req) :
                            DeclaresImage(resp.req[i]) /\ resp.req[i].body # NotAnImage})

C4_Witness ==
    /\ resp.ep = "predict-batch"
    /\ resp.status = 200
    /\ Len(resp.body.results) >= 4
    /\ \E i, j, k \in 1..Len(resp.body.results) :
          /\ i < j /\ j < k
          /\ HasPrediction(resp.body.results[i])
          /\ HasError(resp.body.results[j])
          /\ DeclaresImage(resp.req[j]) /\ resp.req[j].body = NotAnImage
          /\ HasPrediction(resp.body.results[k])
          /\ resp.body.results[i].filename # resp.body.results[j].filename

\* C5: the service serves only after load_model has set the model and the
\* label map, so no prediction request is handled without them; when
\* load_model fails at the model file or at the classes file, the service
\* never serves.
C5_ServesOnlyLoaded ==
    /\ phase \in {"serving", "stopped"} =>
          /\ Loaded
          /\ model_file.exists /\ model_file.loadable
          /\ classes_file.exists /\ classes_file.parses
    /\ resp.ep \in PredictionEps => Loaded

C5_Witness ==
    /\ phase = "failed"
    /\ model # None
    /\ plant_classes = None

\* what GET /health would report in the current state
HealthView == HealthBody(model, plant_classes)

Initialized == phase \in {"serving", "stopped"}

GoodImageOf(r) ==
    IF r.ep = "predict"
    THEN IF DeclaresImage(r.req) /\ Answered(r.req.body) THEN r.req.body ELSE NotAnImage
    ELSE IF r.ep = "predict-base64"
    THEN IF ("image" \in DOMAIN r.req) /\ r.req.image.padding_ok
            /\ Answered(r.req.image.data)
         THEN r.req.image.data ELSE NotAnImage
    ELSE NotAnImage

\* C7: with a label map at least as long as the engine's vector, each of the
\* three prediction endpoints reports the top-1 pair: the first position of
\* the greatest value, the value there, and the label there.
C7_Top1 ==
    (resp.ep \in PredictionEps /\ Len(plant_classes.items) >= model.width) =>
        /\ GoodImageOf(resp) # NotAnImage =>
              resp.status = 200 /\ IsTop1(resp.body, GoodImageOf(resp))
        /\ (resp.ep = "predict-batch" /\ resp.status = 200) =>
              \A i \in 1..Len(resp.req) :
                 (DeclaresImage(resp.req[i]) /\ Answered(resp.req[i].body)) =>
                     IsTop1(resp.body.results[i], resp.req[i].body)

\* a tie for the greatest value, between the first and the last position
C7_Witness ==
    /\ resp.ep = "predict"
    /\ resp.status = 200
    /\ model.width >= 2
    /\ Len(plant_classes.items) >= model.width
    /\ VectorOf(resp.req.body)[1] = VectorOf(resp.req.body)[model.width]
    /\ VectorOf(resp.req.body)[1] > 0
    /\ resp.body.predicted_class = plant_classes.items[1]

\* C8: a /predict request that declares a content type not beginning with
\* "image/" is answered 400 without the body read, preprocessed or given to
\* the engine; in /predict-batch such an item becomes an error entry and no
\* inference runs for it.
C8_NonImageRejected ==
    /\ (resp.ep = "predict" /\ DeclaresOther(resp.req)) =>
          /\ resp.status = 400
          /\ resp.reads = 0 /\ resp.preps = 0 /\ resp.infers = 0
    /\ (resp.ep = "predict-batch" /\ resp.status = 200) =>
          /\ \A i \in 1..Len(resp.req) :
                DeclaresOther(resp.req[i]) =>
                    /\ HasError(resp.body.results[i])
                    /\ HasNoPrediction(resp.body.results[i])
          /\ resp.reads <= Cardinality({i \in 1..Len(resp.req) : ~DeclaresOther(resp.req[i])})
          /\ resp.preps <= resp.reads
          /\ resp.infers <= resp.reads

C8_Witness ==
    /\ resp.ep = "predict"
    /\ DeclaresOther(resp.req)
    /\ Answered(resp.req.body)
    /\ resp.status = 400
    /\ resp.reads = 0

\* C9: when the arg-max position of the engine's answer is no position of
\* the label map, /predict and /predict-base64 answer with an error that
\* carries no predicted_class and no confidence, and /predict-batch records
\* an error entry for that item and for no item whose position has a label.
C9_LabelOutOfRange ==
    resp.ep \in PredictionEps =>
        /\ (GoodImageOf(resp) # NotAnImage /\ OutOfRange(GoodImageOf(resp))) =>
              /\ resp.status = 500
              /\ HasNoPrediction(resp.body)
        /\ (resp.ep = "predict-batch" /\ resp.status = 200) =>
              \A i \in 1..Len(resp.req) :
                 (DeclaresImage(resp.req[i]) /\ Answered(resp.req[i].body)) =>
                     IF OutOfRange(resp.req[i].body)
                     THEN /\ HasError(resp.body.results[i])
                          /\ HasNoPrediction(resp.body.results[i])
                     ELSE HasPrediction(resp.body.results[i])

C9_Witness ==
    /\ resp.ep = "predict-batch"
    /\ resp.status = 200
    /\ \E i, j \in 1..Len(resp.req) :
          /\ i < j
          /\ DeclaresImage(resp.req[i]) /\ Answered(resp.req[i].body)
          /\ OutOfRange(resp.req[i].body)
          /\ HasError(resp.body.results[i])
          /\ HasPrediction(resp.body.results[j])

\* C10: model and plant_classes are assigned by load_model during startup
\* only, each at most once, and no request handler changes either.
C10_GlobalsWrittenOnce ==
    [][/\ (model' # model \/ plant_classes' # plant_classes) =>
              (phase = "starting" /\ phase' # "starting")
       /\ model # None => model' = model
       /\ plant_classes # None => plant_classes' = plant_classes
       /\ resp' # resp => (model' = model /\ plant_classes' = plant_classes)]_vars

C10_Witness ==
    /\ resp.ep = "classes"
    /\ resp.status = 200
    /\ Len(resp.body.classes) >= 2
    /\ resp.body.classes = plant_classes.items

====
